---------------------------- MODULE Spec2Model ----------------------------
(***************************************************************************)
(* Model of timeout-cli (src/src/main.rs): one supervision session.         *)
(*                                                                         *)
(* Four threads share two atomic flags and one channel:                    *)
(*   main            spawns the others, receives the result, joins the     *)
(*                   command thread and computes the exit code;            *)
(*   command thread  spawns the child and runs the poll loop;              *)
(*   timeout thread  sleeps timeout_duration, sets should_terminate;       *)
(*   kill thread     (only with --kill-after) sleeps timeout_duration +    *)
(*                   kill_duration, sets should_kill.                      *)
(* The child process is a fifth party.  The model is the cfg(unix) build.  *)
(*                                                                         *)
(* Time is a discrete clock in seconds.  thread::sleep(d) returns no       *)
(* earlier than d after it was called and may return arbitrarily later;    *)
(* instructions of a thread take no time of their own.                     *)
(***************************************************************************)
EXTENDS Integers, Sequences, FiniteSets, TLC

(***************************************************************************)
(* Bounds of the model.                                                    *)
(***************************************************************************)
MaxSeconds == 1
MaxKillAfter == 1

MaxTime == MaxSeconds + MaxKillAfter + 1

(***************************************************************************)
(* Program constants.                                                      *)
(***************************************************************************)
EXIT_TIMEOUT == 124
EXIT_TIMEOUT_FAIL == 125
EXIT_CANNOT_INVOKE == 126
EXIT_NOT_FOUND == 127
EXIT_KILLED == 137

\* kill_after: Option<u64>; None is written NoKillAfter.
NoKillAfter == 0 - 1

\* Exit codes a child may return from exit(); a child that dies from a
\* signal has no exit code at all (ExitStatus::code() is None).
ChildCodes == {0, 42, 255}

\* std::process::ExitStatus as the program sees it.
ExitStatuses ==
    [signaled : {FALSE}, code : ChildCodes] \cup {[signaled |-> TRUE, code |-> 0]}

SignaledStatus == [signaled |-> TRUE, code |-> 0]

\* Result of Command::spawn(): Ok, or the io::ErrorKind of the error.
SpawnResults == {"Ok", "NotFound", "PermissionDenied", "Other"}

\* enum TimeoutResult
Completed(n) == [tag |-> "Completed", code |-> n]
TimedOut == [tag |-> "TimedOut", code |-> 0]
Killed == [tag |-> "Killed", code |-> 0]
NotFound == [tag |-> "NotFound", code |-> 0]
CannotInvoke == [tag |-> "CannotInvoke", code |-> 0]
InternalError == [tag |-> "InternalError", code |-> 0]

\* "nothing yet" for a TimeoutResult-valued variable
NoResult == [tag |-> "none", code |-> 0]

\* "no exit code computed yet"
NoExit == 0 - 1

VARIABLES
    \* inputs of the session, fixed at start
    seconds,              \* args.seconds
    kill_after,           \* args.kill_after (NoKillAfter for None)
    spawnResult,          \* what cmd.spawn() returns in this session
    childExitsAlone,      \* the child may exit by itself
    childHonorsTerm,      \* the child exits when it receives SIGTERM
    childOwnStatus,       \* the status the child exits with by itself
    tryWaitFails,         \* the OS may fail child.try_wait() in this session
    \* shared state
    now,                  \* wall clock, seconds since main started
    should_terminate,     \* AtomicBool
    should_kill,          \* AtomicBool
    chan,                 \* mpsc channel (tx, rx): values in flight
    \* main thread
    mainPc,
    result,               \* let result = rx.recv()...
    exitStatus,           \* the ExitCode main returns
    \* timer threads
    timeoutPc,
    killPc,
    \* command thread
    cmdPc,
    term_sent,
    \* child process
    childState,           \* "none", "running", "exited" (zombie), "reaped"
    childStatus,          \* ExitStatus once exited
    termPending,          \* SIGTERM delivered and not yet acted on
    exitCause,            \* "none", "self", "term", "kill"
    \* history of the session
    outcome,              \* the last value given to tx.send
    sends,                \* number of tx.send calls
    termSignals,          \* SIGTERMs sent to the child
    killSignals,          \* SIGKILLs sent to the child
    loopEntered,          \* the poll loop has started an iteration
    waitErr,              \* try_wait returned Err
    exitedBeforeTimeout,  \* the child exited by itself before `seconds`
                          \* had elapsed and before should_terminate was set
    killSeenAfterExit,    \* the loop saw should_kill with the child a zombie
    flagsAtSpawn,         \* the two flags at the moment cmd.spawn() returned
    killFlagFirst         \* should_kill was set while should_terminate was false

vars == <<seconds, kill_after, spawnResult, childExitsAlone, childHonorsTerm,
          childOwnStatus, tryWaitFails, now, should_terminate, should_kill,
          chan, mainPc, result, exitStatus, timeoutPc, killPc, cmdPc,
          term_sent, childState, childStatus, termPending, exitCause, outcome,
          sends, termSignals, killSignals, loopEntered, waitErr,
          exitedBeforeTimeout, killSeenAfterExit, flagsAtSpawn,
          killFlagFirst>>

inputVars == <<seconds, kill_after, spawnResult, childExitsAlone,
               childHonorsTerm, childOwnStatus, tryWaitFails>>
mainVars == <<mainPc, result, exitStatus>>
flagVars == <<should_terminate, should_kill>>
timerVars == <<timeoutPc, killPc, killFlagFirst>>
childVars == <<childState, childStatus, termPending, exitCause,
               exitedBeforeTimeout>>
histVars == <<outcome, sends, termSignals, killSignals, loopEntered, waitErr,
              killSeenAfterExit, flagsAtSpawn>>

(***************************************************************************)
(* Pure helpers.                                                           *)
(***************************************************************************)

\* kill_after_duration.is_some()
KillAfterIsSome == kill_after # NoKillAfter

\* status.code().unwrap_or(-1)
ExitCodeOfStatus(status) == IF status.signaled THEN 0 - 1 ELSE status.code

\* Variant of SpawnErrorResult: the PermissionDenied arm is missing.
SpawnErrorResult_NoPermArm(kind) ==
    CASE kind = "NotFound" -> NotFound
      [] OTHER -> InternalError

\* match e.kind() { NotFound => .., PermissionDenied => .., _ => .. }
SpawnErrorResult(kind) ==
    CASE kind = "NotFound" -> NotFound
      [] kind = "PermissionDenied" -> CannotInvoke
      [] OTHER -> InternalError

\* Variant of TryWaitResult: term_sent is not consulted.
TryWaitResult_IgnoresSent(sent, code) ==
    Completed(code)

\* what the Ok(Some(status)) arm of try_wait sends
TryWaitResult(sent, code) ==
    IF sent THEN TimedOut ELSE Completed(code)

\* Variant of ExitCodeOf: Completed(n) is cast with `as u8`, not clamped.
ExitCodeOf_Truncating(r) ==
    CASE r.tag = "Completed" -> r.code % 256
      [] r.tag = "TimedOut" -> EXIT_TIMEOUT
      [] r.tag = "Killed" -> EXIT_KILLED
      [] r.tag = "NotFound" -> EXIT_NOT_FOUND
      [] r.tag = "CannotInvoke" -> EXIT_CANNOT_INVOKE
      [] OTHER -> EXIT_TIMEOUT_FAIL

\* let exit_code = match result { ... }
ExitCodeOf(r) ==
    CASE r.tag = "Completed" ->
            IF r.code >= 0 /\ r.code <= 255 THEN r.code ELSE 1
      [] r.tag = "TimedOut" -> EXIT_TIMEOUT
      [] r.tag = "Killed" -> EXIT_KILLED
      [] r.tag = "NotFound" -> EXIT_NOT_FOUND
      [] r.tag = "CannotInvoke" -> EXIT_CANNOT_INVOKE
      [] OTHER -> EXIT_TIMEOUT_FAIL

(***************************************************************************)
(* Initial state: main has parsed its arguments and created the flags and  *)
(* the channel; no thread is started yet.                                  *)
(***************************************************************************)
Init ==
    /\ seconds \in 0..MaxSeconds
    /\ kill_after \in {NoKillAfter} \cup (0..MaxKillAfter)
    /\ spawnResult \in SpawnResults
    /\ childExitsAlone \in BOOLEAN
    /\ childHonorsTerm \in BOOLEAN
    /\ childOwnStatus \in ExitStatuses
    /\ tryWaitFails \in BOOLEAN
    /\ now = 0
    /\ should_terminate = FALSE
    /\ should_kill = FALSE
    /\ chan = <<>>
    /\ mainPc = "spawn_command"
    /\ result = NoResult
    /\ exitStatus = NoExit
    /\ timeoutPc = "unstarted"
    /\ killPc = "unstarted"
    /\ cmdPc = "unstarted"
    /\ term_sent = FALSE
    /\ childState = "none"
    /\ childStatus = SignaledStatus
    /\ termPending = FALSE
    /\ exitCause = "none"
    /\ outcome = NoResult
    /\ sends = 0
    /\ termSignals = 0
    /\ killSignals = 0
    /\ loopEntered = FALSE
    /\ waitErr = FALSE
    /\ exitedBeforeTimeout = FALSE
    /\ killSeenAfterExit = FALSE
    /\ flagsAtSpawn = [terminate |-> FALSE, kill |-> FALSE]
    /\ killFlagFirst = FALSE

\* The process is alive until main returns; its threads die with it.
Running == mainPc # "done"

(***************************************************************************)
(* Clock.  Thread start-up in main takes no measurable part of a second.   *)
(***************************************************************************)
Tick ==
    /\ Running
    /\ mainPc \in {"recv", "join", "exit"}
    /\ now < MaxTime
    /\ now' = now + 1
    /\ UNCHANGED <<inputVars, flagVars, chan, mainVars, timerVars, cmdPc,
                   term_sent, childVars, histVars>>

(***************************************************************************)
(* Main thread.                                                            *)
(***************************************************************************)
MainSpawnCommandThread ==
    /\ mainPc = "spawn_command"
    /\ mainPc' = "spawn_timeout"
    /\ cmdPc' = "spawn"
    /\ UNCHANGED <<inputVars, now, flagVars, chan, result, exitStatus,
                   timerVars, term_sent, childVars, histVars>>

MainSpawnTimeoutThread ==
    /\ mainPc = "spawn_timeout"
    /\ mainPc' = "spawn_kill"
    /\ timeoutPc' = "sleeping"
    /\ UNCHANGED <<inputVars, now, flagVars, chan, result, exitStatus, killPc,
                   killFlagFirst, cmdPc, term_sent, childVars, histVars>>

\* Variant of MainSpawnKillThread: the kill-after thread is started in
\* both configurations.
MainSpawnKillThread_Always ==
    /\ mainPc = "spawn_kill"
    /\ mainPc' = "recv"
    /\ killPc' = "sleeping"
    /\ UNCHANGED <<inputVars, now, flagVars, chan, result, exitStatus,
                   timeoutPc, killFlagFirst, cmdPc, term_sent, childVars,
                   histVars>>

\* if let Some(kill_duration) = kill_after_duration { thread::spawn(..) }
MainSpawnKillThread ==
    /\ mainPc = "spawn_kill"
    /\ mainPc' = "recv"
    /\ killPc' = IF KillAfterIsSome THEN "sleeping" ELSE killPc
    /\ UNCHANGED <<inputVars, now, flagVars, chan, result, exitStatus,
                   timeoutPc, killFlagFirst, cmdPc, term_sent, childVars,
                   histVars>>

\* let result = rx.recv().unwrap_or(TimeoutResult::InternalError);
\* recv blocks while the channel is empty and the sender is alive.
MainRecv ==
    /\ mainPc = "recv"
    /\ chan # <<>> \/ cmdPc = "done"
    /\ result' = IF chan # <<>> THEN Head(chan) ELSE InternalError
    /\ chan' = IF chan # <<>> THEN Tail(chan) ELSE chan
    /\ mainPc' = "join"
    /\ UNCHANGED <<inputVars, now, flagVars, exitStatus, timerVars, cmdPc,
                   term_sent, childVars, histVars>>

\* Variant of MainJoin: main does not wait for the command thread.
MainJoin_NoWait ==
    /\ mainPc = "join"
    /\ mainPc' = "exit"
    /\ UNCHANGED <<inputVars, now, flagVars, chan, result, exitStatus,
                   timerVars, cmdPc, term_sent, childVars, histVars>>

\* let _ = command_thread.join();
MainJoin ==
    /\ mainPc = "join"
    /\ cmdPc = "done"
    /\ mainPc' = "exit"
    /\ UNCHANGED <<inputVars, now, flagVars, chan, result, exitStatus,
                   timerVars, cmdPc, term_sent, childVars, histVars>>

\* let exit_code = match result { ... }; exit_code
MainExit ==
    /\ mainPc = "exit"
    /\ exitStatus' = ExitCodeOf(result)
    /\ mainPc' = "done"
    /\ UNCHANGED <<inputVars, now, flagVars, chan, result, timerVars, cmdPc,
                   term_sent, childVars, histVars>>

(***************************************************************************)
(* Timer threads.                                                          *)
(***************************************************************************)
\* thread::sleep(timeout_duration); should_terminate_timer.store(true)
TimeoutFire ==
    /\ Running
    /\ timeoutPc = "sleeping"
    /\ now >= seconds
    /\ should_terminate' = TRUE
    /\ timeoutPc' = "done"
    /\ UNCHANGED <<inputVars, now, should_kill, chan, mainVars, killPc,
                   killFlagFirst, cmdPc, term_sent, childVars, histVars>>

\* total_duration = timeout_duration + kill_duration
TotalDuration == seconds + kill_after

\* Variant of KillFire: the thread wakes up but stores nothing.
KillFire_NoStore ==
    /\ Running
    /\ killPc = "sleeping"
    /\ now >= TotalDuration
    /\ killPc' = "done"
    /\ UNCHANGED <<inputVars, now, flagVars, chan, mainVars, timeoutPc, cmdPc,
                   term_sent, childVars, histVars, killFlagFirst>>

\* thread::sleep(total_duration); should_kill_timer.store(true)
KillFire ==
    /\ Running
    /\ killPc = "sleeping"
    /\ now >= TotalDuration
    /\ should_kill' = TRUE
    /\ killFlagFirst' = ~should_terminate
    /\ killPc' = "done"
    /\ UNCHANGED <<inputVars, now, should_terminate, chan, mainVars, timeoutPc,
                   cmdPc, term_sent, childVars, histVars>>

(***************************************************************************)
(* Child process.                                                          *)
(***************************************************************************)
\* The child exits by itself.
ChildExit ==
    /\ Running
    /\ childState = "running"
    /\ childExitsAlone
    /\ childState' = "exited"
    /\ childStatus' = childOwnStatus
    /\ exitCause' = "self"
    /\ exitedBeforeTimeout' = (now < seconds /\ ~should_terminate)
    /\ UNCHANGED <<inputVars, now, flagVars, chan, mainVars, timerVars, cmdPc,
                   term_sent, termPending, histVars>>

\* The child acts on a delivered SIGTERM by terminating.
ChildHonorTerm ==
    /\ Running
    /\ childState = "running"
    /\ termPending
    /\ childHonorsTerm
    /\ childState' = "exited"
    /\ childStatus' = SignaledStatus
    /\ exitCause' = "term"
    /\ termPending' = FALSE
    /\ UNCHANGED <<inputVars, now, flagVars, chan, mainVars, timerVars, cmdPc,
                   term_sent, exitedBeforeTimeout, histVars>>

(***************************************************************************)
(* Command thread.  A step that calls tx.send leaves the thread at         *)
(* "returning": the trailing debug_print and the return follow the send.   *)
(***************************************************************************)
Send(r) ==
    /\ chan' = Append(chan, r)
    /\ outcome' = r
    /\ sends' = sends + 1

\* cmd.spawn() returned Ok(child)
CmdSpawnOk ==
    /\ Running
    /\ cmdPc = "spawn"
    /\ spawnResult = "Ok"
    /\ childState' = "running"
    /\ cmdPc' = "loop"
    /\ flagsAtSpawn' = [terminate |-> should_terminate, kill |-> should_kill]
    /\ UNCHANGED <<inputVars, now, flagVars, chan, mainVars, timerVars,
                   term_sent, childStatus, termPending, exitCause,
                   exitedBeforeTimeout, outcome, sends, termSignals, killSignals,
                   loopEntered, waitErr, killSeenAfterExit>>

\* cmd.spawn() returned Err(e): classify, send, return
CmdSpawnFail ==
    /\ Running
    /\ cmdPc = "spawn"
    /\ spawnResult # "Ok"
    /\ Send(SpawnErrorResult(spawnResult))
    /\ cmdPc' = "returning"
    /\ flagsAtSpawn' = [terminate |-> should_terminate, kill |-> should_kill]
    /\ UNCHANGED <<inputVars, now, flagVars, mainVars, timerVars, term_sent,
                   childVars, termSignals, killSignals, loopEntered, waitErr,
                   killSeenAfterExit>>

\* Variant of CmdCheckKill: the kill branch is taken only once SIGTERM has
\* been sent.
CmdCheckKill_AfterTerm ==
    /\ Running
    /\ cmdPc = "loop"
    /\ loopEntered' = TRUE
    /\ cmdPc' = IF should_kill /\ term_sent THEN "kill_kill" ELSE "check_term"
    /\ killSeenAfterExit' =
           (killSeenAfterExit \/ (should_kill /\ childState = "exited"))
    /\ UNCHANGED <<inputVars, now, flagVars, chan, mainVars, timerVars,
                   term_sent, childVars, outcome, sends, termSignals,
                   killSignals, waitErr, flagsAtSpawn>>

\* loop { if should_kill_clone.load(Relaxed) { ...
CmdCheckKill ==
    /\ Running
    /\ cmdPc = "loop"
    /\ loopEntered' = TRUE
    /\ cmdPc' = IF should_kill THEN "kill_kill" ELSE "check_term"
    /\ killSeenAfterExit' =
           (killSeenAfterExit \/ (should_kill /\ childState = "exited"))
    /\ UNCHANGED <<inputVars, now, flagVars, chan, mainVars, timerVars,
                   term_sent, childVars, outcome, sends, termSignals,
                   killSignals, waitErr, flagsAtSpawn>>

\* child.kill(): SIGKILL to the child the handle still owns.  A running
\* child dies from it; a zombie is unaffected.
ChildKill ==
    /\ killSignals' = killSignals + 1
    /\ IF childState = "running"
         THEN /\ childState' = "exited"
              /\ childStatus' = SignaledStatus
              /\ exitCause' = "kill"
              /\ termPending' = FALSE
         ELSE UNCHANGED <<childState, childStatus, exitCause, termPending>>

\* child.wait(): blocks until the child has exited, then reaps it.
ChildWait ==
    /\ childState = "exited"
    /\ childState' = "reaped"

\* let _ = child.kill();   (kill branch)
CmdKill ==
    /\ Running
    /\ cmdPc = "kill_kill"
    /\ ChildKill
    /\ cmdPc' = "kill_wait"
    /\ UNCHANGED <<inputVars, now, flagVars, chan, mainVars, timerVars,
                   term_sent, exitedBeforeTimeout, outcome, sends, termSignals,
                   loopEntered, waitErr, killSeenAfterExit, flagsAtSpawn>>

\* let _ = child.wait();   (kill branch)
CmdKillWait ==
    /\ Running
    /\ cmdPc = "kill_wait"
    /\ ChildWait
    /\ cmdPc' = "kill_send"
    /\ UNCHANGED <<inputVars, now, flagVars, chan, mainVars, timerVars,
                   term_sent, childStatus, termPending, exitCause,
                   exitedBeforeTimeout, histVars>>

\* Variant of CmdKillSend: the kill branch reports TimedOut.
CmdKillSend_TimedOut ==
    /\ Running
    /\ cmdPc = "kill_send"
    /\ Send(TimedOut)
    /\ cmdPc' = "returning"
    /\ UNCHANGED <<inputVars, now, flagVars, mainVars, timerVars, term_sent,
                   childVars, termSignals, killSignals, loopEntered, waitErr,
                   killSeenAfterExit, flagsAtSpawn>>

\* let _ = tx.send(TimeoutResult::Killed);
CmdKillSend ==
    /\ Running
    /\ cmdPc = "kill_send"
    /\ Send(Killed)
    /\ cmdPc' = "returning"
    /\ UNCHANGED <<inputVars, now, flagVars, mainVars, timerVars, term_sent,
                   childVars, termSignals, killSignals, loopEntered, waitErr,
                   killSeenAfterExit, flagsAtSpawn>>

\* Variant of SendTerm: the signal is sent but term_sent is not recorded.
SendTerm_NoRecord ==
    /\ termSignals' = termSignals + 1
    /\ termPending' = (childState = "running")
    /\ term_sent' = term_sent

\* libc::kill(child.id(), SIGTERM); term_sent = true;
SendTerm ==
    /\ termSignals' = termSignals + 1
    /\ termPending' = (childState = "running")
    /\ term_sent' = TRUE

\* Variant of CmdCheckTerm: without kill-after the loop goes on polling
\* after SIGTERM instead of killing after the grace window.
CmdCheckTerm_NoGrace ==
    /\ Running
    /\ cmdPc = "check_term"
    /\ IF should_terminate /\ ~term_sent
         THEN SendTerm
         ELSE UNCHANGED <<termSignals, termPending, term_sent>>
    /\ cmdPc' = "try_wait"
    /\ UNCHANGED <<inputVars, now, flagVars, chan, mainVars, timerVars,
                   childState, childStatus, exitCause, exitedBeforeTimeout,
                   outcome, sends, killSignals, loopEntered, waitErr,
                   killSeenAfterExit, flagsAtSpawn>>

\* Variant of CmdCheckTerm: the kill_after_duration.is_none() test is
\* missing, so the grace path is taken in both configurations.
CmdCheckTerm_AlwaysGrace ==
    /\ Running
    /\ cmdPc = "check_term"
    /\ IF should_terminate /\ ~term_sent
         THEN /\ SendTerm
              /\ cmdPc' = "grace_sleep"
         ELSE /\ cmdPc' = "try_wait"
              /\ UNCHANGED <<termSignals, termPending, term_sent>>
    /\ UNCHANGED <<inputVars, now, flagVars, chan, mainVars, timerVars,
                   childState, childStatus, exitCause, exitedBeforeTimeout,
                   outcome, sends, killSignals, loopEntered, waitErr,
                   killSeenAfterExit, flagsAtSpawn>>

\* Variant of CmdCheckTerm: the test is `!term_sent` alone, the flag is not
\* loaded.
CmdCheckTerm_NoFlag ==
    /\ Running
    /\ cmdPc = "check_term"
    /\ IF ~term_sent
         THEN /\ SendTerm
              /\ cmdPc' = IF KillAfterIsSome THEN "try_wait" ELSE "grace_sleep"
         ELSE /\ cmdPc' = "try_wait"
              /\ UNCHANGED <<termSignals, termPending, term_sent>>
    /\ UNCHANGED <<inputVars, now, flagVars, chan, mainVars, timerVars,
                   childState, childStatus, exitCause, exitedBeforeTimeout,
                   outcome, sends, killSignals, loopEntered, waitErr,
                   killSeenAfterExit, flagsAtSpawn>>

\* if should_terminate_clone.load(Relaxed) && !term_sent { SIGTERM;
\*     term_sent = true; if kill_after_duration.is_none() { ... } }
CmdCheckTerm ==
    /\ Running
    /\ cmdPc = "check_term"
    /\ IF should_terminate /\ ~term_sent
         THEN /\ SendTerm
              /\ cmdPc' = IF KillAfterIsSome THEN "try_wait" ELSE "grace_sleep"
         ELSE /\ cmdPc' = "try_wait"
              /\ UNCHANGED <<termSignals, termPending, term_sent>>
    /\ UNCHANGED <<inputVars, now, flagVars, chan, mainVars, timerVars,
                   childState, childStatus, exitCause, exitedBeforeTimeout,
                   outcome, sends, killSignals, loopEntered, waitErr,
                   killSeenAfterExit, flagsAtSpawn>>

\* thread::sleep(Duration::from_millis(100));
CmdGraceSleep ==
    /\ Running
    /\ cmdPc = "grace_sleep"
    /\ cmdPc' = "grace_kill"
    /\ UNCHANGED <<inputVars, now, flagVars, chan, mainVars, timerVars,
                   term_sent, childVars, histVars>>

\* let _ = child.kill();   (no kill-after)
CmdGraceKill ==
    /\ Running
    /\ cmdPc = "grace_kill"
    /\ ChildKill
    /\ cmdPc' = "grace_wait"
    /\ UNCHANGED <<inputVars, now, flagVars, chan, mainVars, timerVars,
                   term_sent, exitedBeforeTimeout, outcome, sends, termSignals,
                   loopEntered, waitErr, killSeenAfterExit, flagsAtSpawn>>

\* let _ = child.wait();   (no kill-after)
CmdGraceWait ==
    /\ Running
    /\ cmdPc = "grace_wait"
    /\ ChildWait
    /\ cmdPc' = "grace_send"
    /\ UNCHANGED <<inputVars, now, flagVars, chan, mainVars, timerVars,
                   term_sent, childStatus, termPending, exitCause,
                   exitedBeforeTimeout, histVars>>

\* Variant of CmdGraceSend: the forced kill after the grace window is
\* reported as Killed.
CmdGraceSend_Killed ==
    /\ Running
    /\ cmdPc = "grace_send"
    /\ Send(Killed)
    /\ cmdPc' = "returning"
    /\ UNCHANGED <<inputVars, now, flagVars, mainVars, timerVars, term_sent,
                   childVars, termSignals, killSignals, loopEntered, waitErr,
                   killSeenAfterExit, flagsAtSpawn>>

\* Variant of CmdGraceSend: a child that had exited by itself has its own
\* exit code forwarded.
CmdGraceSend_Forward ==
    /\ Running
    /\ cmdPc = "grace_send"
    /\ Send(IF exitCause = "self"
              THEN Completed(ExitCodeOfStatus(childStatus))
              ELSE TimedOut)
    /\ cmdPc' = "returning"
    /\ UNCHANGED <<inputVars, now, flagVars, mainVars, timerVars, term_sent,
                   childVars, termSignals, killSignals, loopEntered, waitErr,
                   killSeenAfterExit, flagsAtSpawn>>

\* let _ = tx.send(TimeoutResult::TimedOut);   (no kill-after)
CmdGraceSend ==
    /\ Running
    /\ cmdPc = "grace_send"
    /\ Send(TimedOut)
    /\ cmdPc' = "returning"
    /\ UNCHANGED <<inputVars, now, flagVars, mainVars, timerVars, term_sent,
                   childVars, termSignals, killSignals, loopEntered, waitErr,
                   killSeenAfterExit, flagsAtSpawn>>

\* Variant of CmdTryWaitExited: the arm sends but does not return, and the
\* loop goes on.
CmdTryWaitExited_NoReturn ==
    /\ Running
    /\ cmdPc = "try_wait"
    /\ childState = "exited"
    /\ childState' = "reaped"
    /\ Send(TryWaitResult(term_sent, ExitCodeOfStatus(childStatus)))
    /\ cmdPc' = "poll_sleep"
    /\ UNCHANGED <<inputVars, now, flagVars, mainVars, timerVars, term_sent,
                   childStatus, termPending, exitCause, exitedBeforeTimeout,
                   termSignals, killSignals, loopEntered, waitErr,
                   killSeenAfterExit, flagsAtSpawn>>

\* match child.try_wait() { Ok(Some(status)) => { ...send...; return } }
CmdTryWaitExited ==
    /\ Running
    /\ cmdPc = "try_wait"
    /\ childState = "exited"
    /\ childState' = "reaped"
    /\ Send(TryWaitResult(term_sent, ExitCodeOfStatus(childStatus)))
    /\ cmdPc' = "returning"
    /\ UNCHANGED <<inputVars, now, flagVars, mainVars, timerVars, term_sent,
                   childStatus, termPending, exitCause, exitedBeforeTimeout,
                   termSignals, killSignals, loopEntered, waitErr,
                   killSeenAfterExit, flagsAtSpawn>>

\* match child.try_wait() { Ok(None) => thread::sleep(10ms) }
CmdTryWaitRunning ==
    /\ Running
    /\ cmdPc = "try_wait"
    /\ childState = "running"
    /\ cmdPc' = "poll_sleep"
    /\ UNCHANGED <<inputVars, now, flagVars, chan, mainVars, timerVars,
                   term_sent, childVars, histVars>>

\* Variant of CmdTryWaitErr: the Err arm returns without sending.
CmdTryWaitErr_NoSend ==
    /\ Running
    /\ cmdPc = "try_wait"
    /\ tryWaitFails
    /\ waitErr' = TRUE
    /\ cmdPc' = "returning"
    /\ UNCHANGED <<inputVars, now, flagVars, chan, mainVars, timerVars,
                   term_sent, childVars, outcome, sends, termSignals,
                   killSignals, loopEntered, killSeenAfterExit, flagsAtSpawn>>

\* match child.try_wait() { Err(e) => { send(InternalError); return } }
CmdTryWaitErr ==
    /\ Running
    /\ cmdPc = "try_wait"
    /\ tryWaitFails
    /\ waitErr' = TRUE
    /\ Send(InternalError)
    /\ cmdPc' = "returning"
    /\ UNCHANGED <<inputVars, now, flagVars, mainVars, timerVars, term_sent,
                   childVars, termSignals, killSignals, loopEntered,
                   killSeenAfterExit, flagsAtSpawn>>

\* the 10 ms poll sleep is over: next iteration
CmdPollSleep ==
    /\ Running
    /\ cmdPc = "poll_sleep"
    /\ cmdPc' = "loop"
    /\ UNCHANGED <<inputVars, now, flagVars, chan, mainVars, timerVars,
                   term_sent, childVars, histVars>>

\* return; the closure ends and the thread becomes joinable
CmdReturn ==
    /\ Running
    /\ cmdPc = "returning"
    /\ cmdPc' = "done"
    /\ UNCHANGED <<inputVars, now, flagVars, chan, mainVars, timerVars,
                   term_sent, childVars, histVars>>

CommandThread ==
    \/ CmdSpawnOk
    \/ CmdSpawnFail
    \/ CmdCheckKill
    \/ CmdKill
    \/ CmdKillWait
    \/ CmdKillSend
    \/ CmdCheckTerm
    \/ CmdGraceSleep
    \/ CmdGraceKill
    \/ CmdGraceWait
    \/ CmdGraceSend
    \/ CmdTryWaitExited
    \/ CmdTryWaitRunning
    \/ CmdTryWaitErr
    \/ CmdPollSleep
    \/ CmdReturn

MainThread ==
    \/ MainSpawnCommandThread
    \/ MainSpawnTimeoutThread
    \/ MainSpawnKillThread
    \/ MainRecv
    \/ MainJoin
    \/ MainExit

Next ==
    \/ Tick
    \/ MainThread
    \/ TimeoutFire
    \/ KillFire
    \/ ChildExit
    \/ ChildHonorTerm
    \/ CommandThread

Spec == Init /\ [][Next]_vars

\* Every thread the OS has started keeps being scheduled, and time passes.
\* The child is under no obligation to exit by itself.
Fairness ==
    /\ WF_vars(Tick)
    /\ WF_vars(MainThread)
    /\ WF_vars(TimeoutFire)
    /\ WF_vars(KillFire)
    /\ WF_vars(CommandThread)
    /\ WF_vars(ChildHonorTerm)

FairSpec == Spec /\ Fairness

TypeOK ==
    /\ now \in 0..MaxTime
    /\ should_terminate \in BOOLEAN
    /\ should_kill \in BOOLEAN
    /\ Len(chan) <= 1
    /\ childState \in {"none", "running", "exited", "reaped"}
    /\ exitStatus \in {NoExit} \cup (0..255)

(***************************************************************************)
(* Properties.                                                             *)
(***************************************************************************)
Delivered == outcome # NoResult

Spawned == spawnResult = "Ok" /\ childState # "none"

\* C1: a child that was spawned and exited by itself before the timeout had
\* elapsed, with should_terminate still false, is reported as
\* Completed(code) with its own exit code, never as TimedOut or Killed
\* (sessions without an OS error in try_wait).
C1_CompletedBeforeTimeout ==
    (exitedBeforeTimeout /\ ~tryWaitFails /\ Delivered)
        => outcome = Completed(ExitCodeOfStatus(childStatus))

C3Case ==
    /\ spawnResult = "Ok"
    /\ ~KillAfterIsSome
    /\ ~childExitsAlone
    /\ ~childHonorsTerm
    /\ ~tryWaitFails

C3_IgnoringChildTimesOut ==
    /\ (C3Case /\ should_terminate) ~> (outcome = TimedOut)
    /\ []((C3Case /\ Delivered) => outcome = TimedOut)

C3_Witness ==
    /\ C3Case
    /\ should_terminate
    /\ outcome = TimedOut
    /\ exitCause = "kill"
    /\ mainPc = "done"
    /\ exitStatus = 124

\* C4: with kill-after, when the child never exits by itself and ignores
\* SIGTERM, a set kill flag leads to an outcome being sent, and the outcome
\* sent is Killed, never TimedOut (sessions without an OS error in try_wait).
C4Case ==
    /\ spawnResult = "Ok"
    /\ KillAfterIsSome
    /\ ~childExitsAlone
    /\ ~childHonorsTerm
    /\ ~tryWaitFails

C4_NeverExitingChildIsKilled ==
    /\ (C4Case /\ should_kill) ~> (outcome = Killed)
    /\ []((C4Case /\ Delivered) => outcome = Killed)

C4_Witness ==
    /\ C4Case
    /\ should_kill
    /\ outcome = Killed
    /\ exitCause = "kill"
    /\ mainPc = "done"
    /\ exitStatus = 137

\* C5: with kill-after, a child that exited because of the SIGTERM sent to
\* it is reported as TimedOut, never as Killed (sessions without an OS error
\* in try_wait).
C5_HonoredTermIsTimedOut ==
    (KillAfterIsSome /\ exitCause = "term" /\ ~tryWaitFails /\ Delivered)
        => outcome = TimedOut

\* C6: the exit code main returns is the table's value for the one result
\* it received: Completed(n) gives n for 0 <= n <= 255 and 1 otherwise,
\* TimedOut 124, Killed 137, NotFound 127, CannotInvoke 126,
\* InternalError 125; nothing else is returned.
C6_ExitStatusTable ==
    mainPc = "done" =>
        \/ /\ result.tag = "Completed"
           /\ result.code \in 0..255
           /\ exitStatus = result.code
        \/ /\ result.tag = "Completed"
           /\ result.code \notin 0..255
           /\ exitStatus = 1
        \/ result.tag = "TimedOut" /\ exitStatus = 124
        \/ result.tag = "Killed" /\ exitStatus = 137
        \/ result.tag = "NotFound" /\ exitStatus = 127
        \/ result.tag = "CannotInvoke" /\ exitStatus = 126
        \/ result.tag = "InternalError" /\ exitStatus = 125

C6_Witness ==
    /\ mainPc = "done"
    /\ result = Completed(0 - 1)
    /\ exitStatus = 1

\* C7: when cmd.spawn() fails the outcome is fixed by the error kind alone
\* (NotFound, PermissionDenied -> CannotInvoke, other -> InternalError), the
\* poll loop never starts, no child exists and no signal is ever sent,
\* whatever the durations and whatever the flags were at that moment.
C7_SpawnFailure ==
    spawnResult # "Ok" =>
        /\ ~loopEntered
        /\ childState = "none"
        /\ termSignals = 0
        /\ killSignals = 0
        /\ cmdPc \in {"unstarted", "spawn", "returning", "done"}
        /\ cmdPc \in {"returning", "done"} =>
              /\ spawnResult = "NotFound" => outcome = NotFound
              /\ spawnResult = "PermissionDenied" => outcome = CannotInvoke
              /\ spawnResult = "Other" => outcome = InternalError
        /\ mainPc = "done" =>
              /\ spawnResult = "NotFound" => exitStatus = 127
              /\ spawnResult = "PermissionDenied" => exitStatus = 126
              /\ spawnResult = "Other" => exitStatus = 125

C7_Witness ==
    /\ spawnResult = "PermissionDenied"
    /\ flagsAtSpawn = [terminate |-> TRUE, kill |-> TRUE]
    /\ outcome = CannotInvoke
    /\ mainPc = "done"
    /\ exitStatus = 126

\* C8: the command thread calls tx.send exactly once before it ends, on
\* every return path, and main receives exactly that value; there is never
\* a second value.
C8_ExactlyOneOutcome ==
    /\ sends <= 1
    /\ Len(chan) <= 1
    /\ cmdPc \in {"returning", "done"} => sends = 1
    /\ sends = 1 => cmdPc \in {"returning", "done"}
    /\ mainPc \in {"join", "exit", "done"} =>
          /\ sends = 1
          /\ result = outcome
          /\ chan = <<>>

C8_Witness ==
    /\ waitErr
    /\ cmdPc = "done"
    /\ sends = 1
    /\ mainPc = "join"
    /\ result = InternalError

\* C9: whenever the child was spawned, it has been reaped when the command
\* thread ends.
C9_ReapedAtThreadEnd ==
    (cmdPc = "done" /\ spawnResult = "Ok") => childState = "reaped"

\* C10: over a session at most one SIGTERM and at most one SIGKILL are sent
\* to the child.
C10_AtMostOneOfEachSignal ==
    /\ termSignals <= 1
    /\ killSignals <= 1

C10_Witness ==
    /\ KillAfterIsSome
    /\ cmdPc = "done"
    /\ termSignals = 1
    /\ killSignals = 1

\* C11: when every started thread keeps being scheduled and time passes,
\* every session ends: an outcome is sent, main receives it, joins the
\* command thread and computes an exit code, whatever the child does and
\* whatever the configuration.
C11_SessionTerminates ==
    <>(mainPc = "done" /\ Delivered /\ cmdPc = "done" /\ exitStatus # NoExit)

C11_Witness ==
    /\ mainPc = "done"
    /\ Spawned
    /\ KillAfterIsSome
    /\ ~childExitsAlone
    /\ childHonorsTerm
    /\ exitCause = "term"
    /\ outcome = TimedOut
    /\ exitStatus = 124

\* C12: with kill-after configured, should_kill is set only if
\* should_terminate is already set.
C12_KillFlagOnlyAfterTerminateFlag ==
    /\ (KillAfterIsSome /\ should_kill) => should_terminate
    /\ ~killFlagFirst

\* C13: a SIGKILL is sent to the child only after a SIGTERM was sent to it,
\* so an outcome of Killed always has a SIGTERM before it.  Stated for the
\* sessions in which the flags were set in the intended order (terminate
\* first), so that it does not rest on the order of the two timers.
C13_KillOnlyAfterTerm ==
    ~killFlagFirst =>
        /\ killSignals > 0 => termSignals > 0
        /\ outcome = Killed => termSignals > 0

\* C14: the kill-flag check comes first in every iteration.  An iteration
\* that starts with should_kill set goes to the kill branch; the kill
\* branch only kills, waits, sends Killed and returns: it sends no SIGTERM
\* and never reaches the terminate check or try_wait.  So a child that had
\* exited without being observed by try_wait is reported as Killed, not as
\* Completed or TimedOut.
InKillBranch == cmdPc \in {"kill_kill", "kill_wait", "kill_send"}

C14_KillCheckFirst ==
    /\ [][(cmdPc = "loop" /\ should_kill /\ cmdPc' # cmdPc)
             => cmdPc' = "kill_kill"]_vars
    /\ [][(cmdPc = "kill_kill" /\ cmdPc' # cmdPc)
             => (cmdPc' = "kill_wait" /\ killSignals' = killSignals + 1)]_vars
    /\ [][(cmdPc = "kill_wait" /\ cmdPc' # cmdPc)
             => (cmdPc' = "kill_send" /\ childState' = "reaped")]_vars
    /\ [][(cmdPc = "kill_send" /\ cmdPc' # cmdPc)
             => (cmdPc' = "returning" /\ outcome' = Killed)]_vars
    /\ [][InKillBranch
             => (termSignals' = termSignals /\ term_sent' = term_sent)]_vars
    /\ [](InKillBranch => (should_kill /\ ~Delivered))
    /\ []((killSeenAfterExit /\ Delivered)
             => (outcome = Killed /\ childState = "reaped"))

C14_Witness ==
    /\ killSeenAfterExit
    /\ exitCause = "self"
    /\ ~childOwnStatus.signaled
    /\ ~term_sent
    /\ outcome = Killed
    /\ mainPc = "done"
    /\ exitStatus = 137

\* C15: without kill-after, once the terminate flag has been observed (TERM
\* sent) the thread is on the grace path: one SIGTERM, then after the grace
\* window one SIGKILL and a wait, whatever the child did, and the outcome
\* sent is TimedOut, also for a child that had already exited by itself;
\* its own exit code is never forwarded.
InGracePath ==
    cmdPc \in {"grace_sleep", "grace_kill", "grace_wait", "grace_send"}

C15_NoKillAfterAlwaysTimedOut ==
    (~KillAfterIsSome /\ term_sent) =>
        /\ InGracePath \/ cmdPc \in {"returning", "done"}
        /\ termSignals = 1
        /\ killSignals = IF cmdPc \in {"grace_sleep", "grace_kill"} THEN 0 ELSE 1
        /\ cmdPc \in {"grace_send", "returning", "done"} => childState = "reaped"
        /\ cmdPc \in {"returning", "done"} => outcome = TimedOut
        /\ InGracePath => ~Delivered

C15_Witness ==
    /\ ~KillAfterIsSome
    /\ exitedBeforeTimeout
    /\ exitCause = "self"
    /\ childOwnStatus = [signaled |-> FALSE, code |-> 42]
    /\ termSignals = 1
    /\ killSignals = 1
    /\ outcome = TimedOut
    /\ mainPc = "done"
    /\ exitStatus = 124

\* C16: with kill-after, the step that observes the terminate flag sends
\* SIGTERM only and goes on to try_wait; a SIGKILL is sent only by the kill
\* branch, which is entered only by an iteration that saw should_kill set;
\* after TERM the session ends by the kill branch (Killed) or by try_wait
\* observing the child's exit (TimedOut, no SIGKILL sent), in sessions
\* without an OS error in try_wait.
C16_TermOnlyThenPoll ==
    /\ [][(KillAfterIsSome /\ termSignals' # termSignals)
             => /\ cmdPc = "check_term"
                /\ cmdPc' = "try_wait"
                /\ should_terminate
                /\ killSignals' = killSignals
                /\ ~Delivered']_vars
    /\ [][(KillAfterIsSome /\ killSignals' # killSignals)
             => (cmdPc = "kill_kill" /\ should_kill)]_vars
    /\ []((KillAfterIsSome /\ killSignals > 0)
             => (should_kill /\ ~InGracePath))
    /\ []((KillAfterIsSome /\ term_sent /\ Delivered /\ ~waitErr)
             => \/ outcome = Killed /\ killSignals = 1
                \/ /\ outcome = TimedOut
                   /\ killSignals = 0
                   /\ childState = "reaped"
                   /\ exitCause \in {"self", "term"})

C16_Witness ==
    /\ KillAfterIsSome
    /\ term_sent
    /\ termSignals = 1
    /\ killSignals = 0
    /\ ~should_kill
    /\ childState = "running"
    /\ cmdPc = "poll_sleep"

\* C17: the outcome agrees with the signal history.  Completed(code) is
\* sent only if no SIGTERM was ever sent, TimedOut only if one was sent; and
\* when try_wait observes the child's exit it sends TimedOut if TERM had
\* been sent (with or without kill-after) and Completed(code), with the
\* child's decoded exit code, otherwise.
C17_OutcomeMatchesSignals ==
    /\ []((Delivered /\ outcome.tag = "Completed")
             => (termSignals = 0 /\ ~term_sent))
    /\ []((Delivered /\ outcome = TimedOut)
             => (termSignals = 1 /\ term_sent))
    /\ [][(cmdPc = "try_wait" /\ childState = "exited"
              /\ childState' = "reaped")
             => outcome' = IF termSignals > 0
                             THEN TimedOut
                             ELSE [tag |-> "Completed",
                                   code |-> IF childStatus.signaled
                                              THEN 0 - 1
                                              ELSE childStatus.code]]_vars

C17_Witness ==
    /\ KillAfterIsSome
    /\ term_sent
    /\ exitCause = "self"
    /\ killSignals = 0
    /\ childState = "reaped"
    /\ outcome = TimedOut
    /\ mainPc = "done"

\* C18: main computes the exit code only after it has received the outcome
\* and the command thread has ended; from then on the command thread takes
\* no step: it sends no signal and reaps nothing.  This holds on every
\* path, also on those where the thread still has steps to take after its
\* send.
C18_ExitAfterRecvAndJoin ==
    /\ [](mainPc \in {"exit", "done"}
             => (result # NoResult /\ result = outcome /\ cmdPc = "done"))
    /\ [](exitStatus # NoExit => (mainPc = "done" /\ cmdPc = "done"))
    /\ [][(mainPc \in {"exit", "done"})
             => (/\ cmdPc' = cmdPc
                 /\ (childState' = "reaped") = (childState = "reaped")
                 /\ termSignals' = termSignals
                 /\ killSignals' = killSignals)]_vars

C18_Witness ==
    /\ mainPc = "done"
    /\ exitStatus = 137
    /\ result = Killed
    /\ cmdPc = "done"
    /\ childState = "reaped"
    /\ chan = <<>>

\* C19: the command thread never uses the process handle after the child
\* has been reaped (by child.wait() or by a try_wait that returned its
\* status): from then on it sends no SIGTERM and no SIGKILL and calls
\* neither wait nor try_wait, whenever the flags become set.
C19_NoUseAfterReap ==
    /\ [](childState = "reaped"
             => cmdPc \in {"kill_send", "grace_send", "returning", "done"})
    /\ [][(childState = "reaped")
             => (/\ termSignals' = termSignals
                 /\ killSignals' = killSignals
                 /\ childState' = "reaped"
                 /\ cmdPc' \notin {"loop", "check_term", "try_wait",
                                   "kill_kill", "kill_wait", "grace_kill",
                                   "grace_wait"})]_vars

C19_Witness ==
    /\ childState = "reaped"
    /\ cmdPc = "done"
    /\ outcome.tag = "Completed"
    /\ should_terminate
    /\ should_kill
    /\ termSignals = 0
    /\ killSignals = 0

\* C20: no signal is sent before a timer has fired: while should_terminate
\* and should_kill are both false, neither SIGTERM nor SIGKILL has been
\* sent to the child and the thread is in neither the kill branch nor the
\* grace path.
C20_NoSignalBeforeAFlag ==
    (~should_terminate /\ ~should_kill) =>
        /\ termSignals = 0
        /\ killSignals = 0
        /\ ~term_sent
        /\ ~InKillBranch
        /\ ~InGracePath
        /\ exitCause \in {"none", "self"}

C20_Witness ==
    /\ ~should_terminate
    /\ ~should_kill
    /\ now < seconds
    /\ childState = "running"
    /\ cmdPc = "poll_sleep"
    /\ termSignals = 0
    /\ killSignals = 0

\* C21: Killed is produced only with kill-after configured.  Without it the
\* kill-after thread is never started, should_kill stays false, the kill
\* branch is never entered, and a session in which a SIGKILL was sent (the
\* grace path's) ends with TimedOut, never Killed.
C21_KilledOnlyWithKillAfter ==
    /\ ~KillAfterIsSome =>
          /\ killPc = "unstarted"
          /\ ~should_kill
          /\ ~InKillBranch
          /\ outcome # Killed
          /\ result # Killed
          /\ killSignals > 0 => term_sent
          /\ (killSignals > 0 /\ Delivered) => outcome = TimedOut
    /\ outcome = Killed => (KillAfterIsSome /\ should_kill)

C21_Witness ==
    /\ ~KillAfterIsSome
    /\ now = MaxTime
    /\ killPc = "unstarted"
    /\ ~should_kill
    /\ killSignals = 1
    /\ exitCause = "kill"
    /\ result = TimedOut
    /\ mainPc = "done"
    /\ exitStatus = 124

=============================================================================
